---- MODULE Spec2Model ----
(***************************************************************************)
(* Model of protonation_analyzer.py: the periodic distance evaluator       *)
(* (calculate_distance), the species classifier                            *)
(* (identify_species_in_frame), the header colour augmentation and the     *)
(* trajectory driver loop (process_xyz_file).                              *)
(*                                                                         *)
(* Lengths are integers in tenths of the file's length unit ("0.9" is 9),  *)
(* so the cutoff 1.3 is 13 and distances are compared squared.  Colour     *)
(* components are in tenths as well ("0.5" is 5).  Line indices are        *)
(* 0-based as in the source.                                               *)
(***************************************************************************)
EXTENDS Integers, Sequences, FiniteSets, TLC

VARIABLES
    \* process_xyz_file
    lines,          \* f.readlines(): the input, a sequence of lines
    line_idx,       \* index of the next line to read (0-based)
    frame_count,    \* frames rendered so far
    output_lines,   \* the output buffer
    out_file,       \* what f.writelines has put in the output file
    pc,             \* "loop" | "broke" (line 224) | "exhausted" (line 142)
    written,        \* whether lines 227-228 have run
    \* calculate_distance
    pos1, pos2, cell,   \* the arguments
    delta,              \* delta at line 56
    dist2,              \* <<the squared result>>, <<>> before the call
    base2,              \* dist2 before pos1 was moved
    shift,              \* <<axis, direction>> of the move, <<0, 0>> if none

    \* identify_species_in_frame and the colouring of one frame
    atoms, cell_dimensions,
    frame_info,         \* <<the result>>, <<>> before the call
    colored,            \* <<the atom lines written>>, <<>> before

    \* header augmentation
    header,
    written_header,     \* <<the header written>>, <<>> before
    rewritten_header    \* <<the written header augmented again>>

drv_vars  == <<lines, line_idx, frame_count, output_lines, out_file, pc, written>>
dist_vars == <<pos1, pos2, cell, delta, dist2, base2, shift>>
frm_vars  == <<atoms, cell_dimensions, frame_info, colored>>
hdr_vars  == <<header, written_header, rewritten_header>>
vars      == <<drv_vars, dist_vars, frm_vars, hdr_vars>>

----------------------------------------------------------------------------
(* Bounds *)
MaxLines  == 5      \* longest input, in lines
MaxFrames == 4      \* cap on loop iterations that render a frame
MaxCoord  == 3      \* coordinates drawn for calculate_distance: 0..MaxCoord
MaxBox    == 2      \* box lengths drawn for calculate_distance: 1..MaxBox
MaxAtoms  == 5      \* longest atom list drawn for the classifier
MaxProps  == 3      \* most property tokens in a drawn header

(* Program constants *)
oh_bond_max_distance == 13      \* 1.3

Abs(x)  == IF x < 0 THEN -x ELSE x
sign(x) == IF x > 0 THEN 1 ELSE IF x < 0 THEN -1 ELSE 0
NoCell  == <<>>                 \* cell_dimensions is None

----------------------------------------------------------------------------
(* calculate_distance *)

\* the wrong-threshold variant: compares with the whole box length
min_image_full_box(d, L) ==
    IF Abs(d) > L THEN d - sign(d) * L ELSE d

\* the unsigned variant: always subtracts the box length
min_image_unsigned(d, L) ==
    IF 2 * Abs(d) > L THEN d - L ELSE d

\* one axis of the loop at lines 52-54: abs(delta[i]) > 0.5 * cell[i]
min_image(d, L) ==
    IF 2 * Abs(d) > L THEN d - sign(d) * L ELSE d

raw_delta(p, q) == [i \in 1..3 |-> p[i] - q[i]]

\* delta as it stands when line 56 is reached
corrected_delta(p, q, c) ==
    IF c = NoCell THEN raw_delta(p, q)
    ELSE [i \in 1..3 |-> min_image(p[i] - q[i], c[i])]

sum_sq(d) == d[1] * d[1] + d[2] * d[2] + d[3] * d[3]

\* the square of the value calculate_distance returns
calculate_distance2(p, q, c) == sum_sq(corrected_delta(p, q, c))

----------------------------------------------------------------------------
(* identify_species_in_frame *)

\* the strict variant of the cutoff test
within_cutoff_strict(o_pos, h_pos, c) ==
    calculate_distance2(o_pos, h_pos, c)
        < oh_bond_max_distance * oh_bond_max_distance

\* line 87: dist <= oh_bond_max_distance
within_cutoff(o_pos, h_pos, c) ==
    calculate_distance2(o_pos, h_pos, c)
        <= oh_bond_max_distance * oh_bond_max_distance

RECURSIVE bonded_h(_, _, _)
\* lines 80-88: the ids of the hydrogens within the cutoff of o_pos
bonded_h(hs, o_pos, c) ==
    IF hs = <<>> THEN <<>>
    ELSE LET h == Head(hs)
             rest == bonded_h(Tail(hs), o_pos, c)
         IN  IF within_cutoff(o_pos, h.pos, c) THEN <<h.id>> \o rest ELSE rest

is_O(a) == a.species = "O"
is_H(a) == a.species = "H"
oxygens(as)   == SelectSeq(as, is_O)
hydrogens(as) == SelectSeq(as, is_H)

\* lines 75-96: the dictionary keyed by oxygen id; a later oxygen with the
\* same id overwrites the entry of an earlier one
oxygen_coordination(as, c) ==
    LET os == oxygens(as)
        hs == hydrogens(as)
        ids == {os[k].id : k \in 1..Len(os)}
        lastOf(id) == CHOOSE k \in 1..Len(os) :
                         /\ os[k].id = id
                         /\ \A j \in (k+1)..Len(os) : os[j].id # id
    IN  [id \in ids |->
            LET o == os[lastOf(id)]
                b == bonded_h(hs, o.pos, c)
            IN  [pos |-> o.pos, coordination |-> Len(b), bonded_h |-> b]]

\* lines 99-102
species_stats(oc) ==
    [OHm   |-> Cardinality({id \in DOMAIN oc : oc[id].coordination = 1}),
     H2O   |-> Cardinality({id \in DOMAIN oc : oc[id].coordination = 2}),
     H3Op  |-> Cardinality({id \in DOMAIN oc : oc[id].coordination = 3}),
     other |-> Cardinality({id \in DOMAIN oc :
                               oc[id].coordination \notin {1, 2, 3}})]

identify_species_in_frame(as, c) ==
    LET oc == oxygen_coordination(as, c)
    IN  [oxygen_coordination |-> oc, stats |-> species_stats(oc)]

----------------------------------------------------------------------------
(* the colour table and the colouring of an atom, lines 124-130, 199-211 *)

color_Xe      == <<5, 5, 5>>
color_H       == <<10, 10, 10>>
color_OHm     == <<0, 0, 10>>
color_H2O     == <<10, 0, 0>>
color_H3Op    == <<10, 5, 0>>
color_magenta == <<10, 0, 10>>
color_default == <<5, 5, 5>>

\* the variant with the H2O and H3O+ entries exchanged
coordination_color_swapped(coordination) ==
    IF coordination = 1 THEN color_OHm
    ELSE IF coordination = 2 THEN color_H3Op
    ELSE IF coordination = 3 THEN color_H2O
    ELSE color_magenta

\* lines 201-209
coordination_color(coordination) ==
    IF coordination = 1 THEN color_OHm
    ELSE IF coordination = 2 THEN color_H2O
    ELSE IF coordination = 3 THEN color_H3Op
    ELSE color_magenta

\* lines 199-211
atom_color(a, info) ==
    IF a.species = "O"
    THEN coordination_color(info.oxygen_coordination[a.id].coordination)
    ELSE IF a.species = "Xe" THEN color_Xe
    ELSE IF a.species = "H" THEN color_H
    ELSE color_default

----------------------------------------------------------------------------
(* Input lines.  A line is one of                                          *)
(*   count n : the text of the integer n, e.g. "2"                         *)
(*   header  : [Lattice="Lx 0.0 0.0 0.0 Ly 0.0 0.0 0.0 Lz" ]               *)
(*             [Properties=]tok:tok:...   with property tokens toks        *)
(*   atom    : "species x y z id"                                          *)
(*   short   : "O 0.0 0.0"      (three tokens)                             *)
(*   badnum  : "O x 0.0 0.0 1"  (five tokens, a coordinate is no number)   *)

CountLine(n)  == [t |-> "count", n |-> n]
HeaderLine(lat, props, toks) ==
    [t |-> "header", lattice |-> lat, props |-> props, toks |-> toks]
AtomLine(sp, p, id) == [t |-> "atom", species |-> sp, pos |-> p, id |-> id]
ShortLine  == [t |-> "short"]
BadNumLine == [t |-> "badnum"]

\* int(text.strip()), line 145: only the text of an integer converts
int_strip(l) ==
    IF l.t = "count" THEN [ok |-> TRUE, v |-> l.n] ELSE [ok |-> FALSE, v |-> 0]

Word(w)   == [txt |-> w, isf |-> FALSE, f |-> 0, isi |-> FALSE, i |-> 0]
FltTok(v) == [txt |-> "float", isf |-> TRUE, f |-> v, isi |-> FALSE, i |-> 0]
IntTok(n) == [txt |-> "int", isf |-> TRUE, f |-> 10 * n, isi |-> TRUE, i |-> n]

\* text.strip().split(), line 167; float() and int() of a token are its
\* isf/f and isi/i fields ("1.0" is a float and no int)
split(l) ==
    IF l.t = "count" THEN <<IntTok(l.n)>>
    ELSE IF l.t = "atom"
    THEN <<Word(l.species), FltTok(l.pos[1]), FltTok(l.pos[2]),
           FltTok(l.pos[3]), IntTok(l.id)>>
    ELSE IF l.t = "short" THEN <<Word("O"), FltTok(0), FltTok(0)>>
    ELSE IF l.t = "badnum"
    THEN <<Word("O"), Word("x"), FltTok(0), FltTok(0), IntTok(1)>>
    ELSE (IF l.lattice = NoCell THEN <<>>
          ELSE <<Word("Lattice="), FltTok(0), FltTok(0), FltTok(0),
                 FltTok(l.lattice[2]), FltTok(0), FltTok(0), FltTok(0),
                 Word("Lz")>>)
         \o (IF l.props \/ l.toks # <<>> THEN <<Word("Properties")>> ELSE <<>>)

\* extract_cell_dimensions, lines 7-26
extract_cell_dimensions(h) ==
    IF h.t = "header" THEN h.lattice ELSE NoCell

----------------------------------------------------------------------------
(* header augmentation, lines 157-159 *)

PropTokens == {"species:S:1", "pos:R:3", "id:I:1", "color:R:3", "grid:I:1"}

\* "color:R:3" in header
has_color(h) ==
    h.t = "header" /\ \E k \in 1..Len(h.toks) : h.toks[k] = "color:R:3"

\* "Properties=" in header
has_Properties(h) == h.t = "header" /\ h.props

\* the text "id:I:1" occurs in a property token
contains_id(tok) == tok \in {"id:I:1", "grid:I:1"}

RECURSIVE replace_id(_)
\* str.replace("id:I:1", "id:I:1:color:R:3") on the token list: every
\* occurrence is replaced
replace_id(toks) ==
    IF toks = <<>> THEN <<>>
    ELSE (IF contains_id(Head(toks)) THEN <<Head(toks), "color:R:3">>
          ELSE <<Head(toks)>>) \o replace_id(Tail(toks))

\* lines 158-159
augment_header(h) ==
    IF ~has_color(h) /\ has_Properties(h)
    THEN [h EXCEPT !.toks = replace_id(h.toks)]
    ELSE h

\* how many times the header advertises color:R:3
color_count(h) ==
    IF h.t = "header"
    THEN Cardinality({k \in 1..Len(h.toks) : h.toks[k] = "color:R:3"})
    ELSE 0

----------------------------------------------------------------------------
(* process_xyz_file: one frame *)

\* the variant in which a missing atom record raises instead of ending
\* the block
record_outcome_missing_raises(ls, k) ==
    IF k >= Len(ls) THEN "raise"
    ELSE LET parts == split(ls[k + 1])
         IN  IF Len(parts) < 5 THEN "skip"
             ELSE IF parts[2].isf /\ parts[3].isf /\ parts[4].isf /\ parts[5].isi
                  THEN "atom" ELSE "raise"

\* the variant in which a short atom record ends the block (break for
\* continue)
record_outcome_short_breaks(ls, k) ==
    IF k >= Len(ls) THEN "break"
    ELSE LET parts == split(ls[k + 1])
         IN  IF Len(parts) < 5 THEN "break"
             ELSE IF parts[2].isf /\ parts[3].isf /\ parts[4].isf /\ parts[5].isi
                  THEN "atom" ELSE "raise"

\* lines 164-173 for the record at index k: "break" (line 165), "skip"
\* (line 169), "raise" (float() or int() fails, lines 172-173) or "atom"
record_outcome(ls, k) ==
    IF k >= Len(ls) THEN "break"
    ELSE LET parts == split(ls[k + 1])
         IN  IF Len(parts) < 5 THEN "skip"
             ELSE IF parts[2].isf /\ parts[3].isf /\ parts[4].isf /\ parts[5].isi
                  THEN "atom" ELSE "raise"

\* lines 171-179
make_atom(l) ==
    LET parts == split(l)
    IN  [species |-> parts[1].txt,
         pos |-> <<parts[2].f, parts[3].f, parts[4].f>>,
         id |-> parts[5].i]

RECURSIVE parse_atoms(_, _, _, _)
\* the loop at lines 162-179, from iteration i on
parse_atoms(ls, idx, i, natoms) ==
    IF i >= natoms THEN [err |-> FALSE, atoms |-> <<>>]
    ELSE LET what == record_outcome(ls, idx + i)
         IN  IF what = "break" THEN [err |-> FALSE, atoms |-> <<>>]
             ELSE IF what = "raise" THEN [err |-> TRUE, atoms |-> <<>>]
             ELSE LET rest == parse_atoms(ls, idx, i + 1, natoms)
                  IN  IF what = "skip" THEN rest
                      ELSE [err |-> rest.err,
                            atoms |-> IF rest.err THEN <<>>
                                      ELSE <<make_atom(ls[idx + i + 1])>>
                                               \o rest.atoms]

count_out(n)  == [kind |-> "count", n |-> n]
header_out(h) == [kind |-> "header", h |-> h]
atom_out(a, info) ==
    [kind |-> "atom", species |-> a.species, pos |-> a.pos, id |-> a.id,
     color |-> atom_color(a, info)]

\* lines 189-216: the text of one frame
render_frame(natoms, h, as, info) ==
    <<count_out(natoms), header_out(h)>>
        \o [k \in 1..Len(as) |-> atom_out(as[k], info)]

\* the variant that writes the count and header lines before the atom
\* records are parsed
process_frame_early_write(ls, idx) ==
    LET n == int_strip(ls[idx + 1])
    IN  IF ~n.ok THEN [err |-> TRUE, line_idx |-> idx, out |-> <<>>]
        ELSE IF idx + 1 >= Len(ls)
        THEN [err |-> TRUE, line_idx |-> idx + 1, out |-> <<>>]
        ELSE LET h0 == ls[idx + 2]
                 c  == extract_cell_dimensions(h0)
                 h  == augment_header(h0)
                 pa == parse_atoms(ls, idx + 2, 0, n.v)
             IN  IF pa.err
                 THEN [err |-> TRUE, line_idx |-> idx + 2,
                       out |-> <<count_out(n.v), header_out(h)>>]
                 ELSE [err |-> FALSE, line_idx |-> idx + 2 + n.v,
                       out |-> render_frame(n.v, h, pa.atoms,
                                   identify_species_in_frame(pa.atoms, c))]

\* the body of the try block, lines 143-220, started at line index idx:
\* whether it raised, line_idx when it ended, and what it appended to
\* output_lines
process_frame(ls, idx) ==
    LET n == int_strip(ls[idx + 1])
    IN  IF ~n.ok THEN [err |-> TRUE, line_idx |-> idx, out |-> <<>>]
        ELSE IF idx + 1 >= Len(ls)
        THEN [err |-> TRUE, line_idx |-> idx + 1, out |-> <<>>]
        ELSE LET h0 == ls[idx + 2]
                 c  == extract_cell_dimensions(h0)
                 h  == augment_header(h0)
                 pa == parse_atoms(ls, idx + 2, 0, n.v)
             IN  IF pa.err
                 THEN [err |-> TRUE, line_idx |-> idx + 2, out |-> <<>>]
                 ELSE [err |-> FALSE, line_idx |-> idx + 2 + n.v,
                       out |-> render_frame(n.v, h, pa.atoms,
                                   identify_species_in_frame(pa.atoms, c))]

----------------------------------------------------------------------------
(* Inputs *)

Box100 == <<100, 100, 100>>

\* Lattice="10.0 0.0 0.0 0.0 10.0 0.0 0.0 0.0 10.0"
\* Properties=species:S:1:pos:R:3:id:I:1
FullHeader == HeaderLine(Box100, TRUE, <<"species:S:1", "pos:R:3", "id:I:1">>)

Counts == {-2, 0, 1, 2}

LineAlphabet ==
    {CountLine(n) : n \in Counts}
    \cup {FullHeader,
          AtomLine("O", <<0, 0, 0>>, 1),
          ShortLine, BadNumLine}

Inputs == UNION {[1..n -> LineAlphabet] : n \in 0..MaxLines}

----------------------------------------------------------------------------
(* process_xyz_file: the driver *)

DrvInit ==
    /\ lines \in Inputs
    /\ line_idx = 0
    /\ frame_count = 0
    /\ output_lines = <<>>
    /\ out_file = <<>>
    /\ pc = "loop"
    /\ written = FALSE

DrvIdle ==
    /\ lines = <<>>
    /\ line_idx = 0
    /\ frame_count = 0
    /\ output_lines = <<>>
    /\ out_file = <<>>
    /\ pc = "idle"
    /\ written = FALSE

\* an iteration of the loop at line 142 that reaches line 220
RenderFrame ==
    /\ pc = "loop"
    /\ line_idx < Len(lines)
    /\ frame_count < MaxFrames
    /\ LET r == process_frame(lines, line_idx)
       IN  /\ ~r.err
           /\ output_lines' = output_lines \o r.out
           /\ line_idx' = r.line_idx
           /\ frame_count' = frame_count + 1
    /\ UNCHANGED <<lines, out_file, pc, written>>

\* an iteration that raises: lines 222-224
FrameError ==
    /\ pc = "loop"
    /\ line_idx < Len(lines)
    /\ frame_count < MaxFrames
    /\ LET r == process_frame(lines, line_idx)
       IN  /\ r.err
           /\ output_lines' = output_lines \o r.out
           /\ line_idx' = r.line_idx
    /\ pc' = "broke"
    /\ UNCHANGED <<lines, frame_count, out_file, written>>

\* the loop condition at line 142 fails
LoopExit ==
    /\ pc = "loop"
    /\ line_idx >= Len(lines)
    /\ pc' = "exhausted"
    /\ UNCHANGED <<lines, line_idx, frame_count, output_lines, out_file, written>>

\* lines 227-228
WriteOutput ==
    /\ pc \in {"broke", "exhausted"}
    /\ ~written
    /\ out_file' = output_lines
    /\ written' = TRUE
    /\ UNCHANGED <<lines, line_idx, frame_count, output_lines, pc>>

----------------------------------------------------------------------------
(* calculate_distance applied to drawn positions *)

Coords   == 0..MaxCoord
BoxLens  == 1..MaxBox

DistInit ==
    /\ pos1 \in [1..3 -> Coords]
    /\ pos2 \in {<<c, c, c>> : c \in Coords}
    /\ cell \in [1..3 -> BoxLens]
    /\ delta = <<0, 0, 0>>
    /\ dist2 = <<>>
    /\ base2 = <<>>
    /\ shift = <<0, 0>>

DistIdle ==
    /\ pos1 = <<0, 0, 0>>
    /\ pos2 = <<0, 0, 0>>
    /\ cell = <<1, 1, 1>>
    /\ delta = <<0, 0, 0>>
    /\ dist2 = <<>>
    /\ base2 = <<>>
    /\ shift = <<0, 0>>

\* calculate_distance(pos1, pos2, cell)
CalcDistance ==
    /\ dist2 = <<>>
    /\ delta' = corrected_delta(pos1, pos2, cell)
    /\ dist2' = <<calculate_distance2(pos1, pos2, cell)>>
    /\ UNCHANGED <<pos1, pos2, cell, base2, shift>>

\* pos1 moved by s box lengths along axis i, and the distance taken again
Translate(i, s) ==
    /\ dist2 # <<>>
    /\ shift = <<0, 0>>
    /\ pos1' = [pos1 EXCEPT ![i] = @ + s * cell[i]]
    /\ base2' = dist2
    /\ delta' = corrected_delta(pos1', pos2, cell)
    /\ dist2' = <<calculate_distance2(pos1', pos2, cell)>>
    /\ shift' = <<i, s>>
    /\ UNCHANGED <<pos2, cell>>

TranslateForward == \E i \in 1..3 : Translate(i, 1)
TranslateBack    == \E i \in 1..3 : Translate(i, -1)

----------------------------------------------------------------------------
(* identify_species_in_frame and the colouring applied to drawn frames *)

AtomAlphabet ==
    {[species |-> "O",  pos |-> <<0, 0, 0>>,    id |-> 1],
     [species |-> "O",  pos |-> <<50, 50, 50>>, id |-> 1],
     [species |-> "O",  pos |-> <<50, 50, 50>>, id |-> 3],
     [species |-> "H",  pos |-> <<0, 0, 9>>,    id |-> 2],
     [species |-> "H",  pos |-> <<13, 0, 0>>,   id |-> 4],
     [species |-> "H",  pos |-> <<95, 0, 0>>,   id |-> 5],
     [species |-> "Xe", pos |-> <<20, 20, 20>>, id |-> 7]}

FrmInit ==
    /\ atoms \in UNION {[1..n -> AtomAlphabet] : n \in 0..MaxAtoms}
    /\ cell_dimensions \in {NoCell, Box100}
    /\ frame_info = <<>>
    /\ colored = <<>>

FrmIdle ==
    /\ atoms = <<>>
    /\ cell_dimensions = NoCell
    /\ frame_info = <<>>
    /\ colored = <<>>

\* line 182
Identify ==
    /\ frame_info = <<>>
    /\ frame_info' = <<identify_species_in_frame(atoms, cell_dimensions)>>
    /\ UNCHANGED <<atoms, cell_dimensions, colored>>

\* lines 193-216
ColorAtoms ==
    /\ frame_info # <<>>
    /\ colored = <<>>
    /\ colored' = <<[k \in 1..Len(atoms) |-> atom_out(atoms[k], frame_info[1])]>>
    /\ UNCHANGED <<atoms, cell_dimensions, frame_info>>

----------------------------------------------------------------------------
(* the header augmentation applied to drawn headers *)

HdrInit ==
    /\ header \in {HeaderLine(NoCell, p, toks) :
                      p \in BOOLEAN,
                      toks \in UNION {[1..n -> PropTokens] : n \in 0..MaxProps}}
    /\ written_header = <<>>
    /\ rewritten_header = <<>>

HdrIdle ==
    /\ header = HeaderLine(NoCell, FALSE, <<>>)
    /\ written_header = <<>>
    /\ rewritten_header = <<>>

\* lines 158-159 and 191
AugmentHeader ==
    /\ written_header = <<>>
    /\ written_header' = <<augment_header(header)>>
    /\ UNCHANGED <<header, rewritten_header>>

\* the written header given to lines 158-159 again
ReaugmentHeader ==
    /\ written_header # <<>>
    /\ rewritten_header = <<>>
    /\ rewritten_header' = <<augment_header(written_header[1])>>
    /\ UNCHANGED <<header, written_header>>

----------------------------------------------------------------------------
(* Specifications *)

Init == DrvInit /\ DistIdle /\ FrmIdle /\ HdrIdle
Next ==
    \/ RenderFrame /\ UNCHANGED <<dist_vars, frm_vars, hdr_vars>>
    \/ FrameError  /\ UNCHANGED <<dist_vars, frm_vars, hdr_vars>>
    \/ LoopExit    /\ UNCHANGED <<dist_vars, frm_vars, hdr_vars>>
    \/ WriteOutput /\ UNCHANGED <<dist_vars, frm_vars, hdr_vars>>
Spec == Init /\ [][Next]_vars

InitDist == DrvIdle /\ DistInit /\ FrmIdle /\ HdrIdle
NextDist ==
    \/ CalcDistance     /\ UNCHANGED <<drv_vars, frm_vars, hdr_vars>>
    \/ TranslateForward /\ UNCHANGED <<drv_vars, frm_vars, hdr_vars>>
    \/ TranslateBack    /\ UNCHANGED <<drv_vars, frm_vars, hdr_vars>>
SpecDist == InitDist /\ [][NextDist]_vars

InitFrame == DrvIdle /\ DistIdle /\ FrmInit /\ HdrIdle
NextFrame ==
    \/ Identify   /\ UNCHANGED <<drv_vars, dist_vars, hdr_vars>>
    \/ ColorAtoms /\ UNCHANGED <<drv_vars, dist_vars, hdr_vars>>
SpecFrame == InitFrame /\ [][NextFrame]_vars

InitHeader == DrvIdle /\ DistIdle /\ FrmIdle /\ HdrInit
NextHeader ==
    \/ AugmentHeader   /\ UNCHANGED <<drv_vars, dist_vars, frm_vars>>
    \/ ReaugmentHeader /\ UNCHANGED <<drv_vars, dist_vars, frm_vars>>
SpecHeader == InitHeader /\ [][NextHeader]_vars

----------------------------------------------------------------------------
(* Properties of calculate_distance, checked under SpecDist *)

\* the raw difference on axis i before pos1 was moved by s box lengths
orig_raw(i, s) == (pos1[i] - s * cell[i]) - pos2[i]

\* neither the pair nor its translate differs by more than one and a half
\* box lengths on axis i
single_image_range(i, s) ==
    /\ 2 * Abs(orig_raw(i, s)) <= 3 * cell[i]
    /\ 2 * Abs(orig_raw(i, s) + s * cell[i]) <= 3 * cell[i]

raw(i) == pos1[i] - pos2[i]

\* the raw difference exceeds half the box length on axis i only
exceeds_on_axis_only(i) ==
    /\ 2 * Abs(raw(i)) > cell[i]
    /\ \A j \in 1..3 \ {i} : 2 * Abs(raw(j)) <= cell[j]

\* axis i is brought within half a box length and the other axes are as
\* they were
corrected_on_axis(i) ==
    /\ 2 * Abs(delta[i]) <= cell[i]
    /\ \A j \in 1..3 \ {i} : delta[j] = raw(j)

----------------------------------------------------------------------------
(* Properties of the classifier and the colouring, checked under SpecFrame *)

\* the number of hydrogen records of the frame within the cutoff of the
\* k-th atom record
n_bonded(k) ==
    Cardinality({j \in 1..Len(atoms) :
        /\ atoms[j].species = "H"
        /\ calculate_distance2(atoms[k].pos, atoms[j].pos, cell_dimensions)
               <= oh_bond_max_distance * oh_bond_max_distance})

OxygenRecords == {k \in 1..Len(atoms) : atoms[k].species = "O"}

species_of(n) ==
    IF n = 1 THEN "OH-" ELSE IF n = 2 THEN "H2O"
    ELSE IF n = 3 THEN "H3O+" ELSE "other"

color_of_species(sp) ==
    IF sp = "OH-" THEN <<0, 0, 10>>
    ELSE IF sp = "H2O" THEN <<10, 0, 0>>
    ELSE IF sp = "H3O+" THEN <<10, 5, 0>>
    ELSE <<10, 0, 10>>

\* every oxygen record is coloured after its own hydrogen count, and the
\* stats count every oxygen record once under its own category
classified_by_own_count ==
    /\ \A k \in OxygenRecords :
          /\ frame_info[1].oxygen_coordination[atoms[k].id].coordination
                 = n_bonded(k)
          /\ colored[1][k].color = color_of_species(species_of(n_bonded(k)))
    /\ LET st == frame_info[1].stats
           nOf(sp) == Cardinality({k \in OxygenRecords :
                                      species_of(n_bonded(k)) = sp})
       IN  /\ st.OHm = nOf("OH-")
           /\ st.H2O = nOf("H2O")
           /\ st.H3Op = nOf("H3O+")
           /\ st.other = nOf("other")

unique_oxygen_ids ==
    \A k, j \in OxygenRecords : atoms[k].id = atoms[j].id => k = j

\* C4 as stated: for every frame and every oxygen record, species and colour
\* follow from the number of hydrogens within the cutoff of that oxygen
\* (1: OH-, 2: H2O, 3: H3O+, otherwise other), and the stats count each
\* oxygen once.
C4_ClassifiedByOwnCountAll ==
    colored # <<>> => classified_by_own_count

\* C4 amended: the same, for every frame whose oxygen records carry pairwise
\* distinct ids.
C4_ClassifiedByOwnCountUniqueIds ==
    (colored # <<>> /\ unique_oxygen_ids) => classified_by_own_count

\* a frame with two oxygens of distinct ids, one of them with three
\* hydrogens within the cutoff, one of which only through the periodic image
C4_Witness ==
    /\ colored # <<>>
    /\ unique_oxygen_ids
    /\ Cardinality(OxygenRecords) = 2
    /\ cell_dimensions # NoCell
    /\ \E k \in OxygenRecords : n_bonded(k) = 3 /\ colored[1][k].color = <<10, 5, 0>>
    /\ \E j \in 1..Len(atoms) : atoms[j].pos = <<95, 0, 0>>

----------------------------------------------------------------------------
(* Properties of the header augmentation, checked under SpecHeader *)

\* C9: the written header is the input header unless that lacks color:R:3
\* and contains Properties=; then the colour declaration follows the id:I:1
\* token and the written header advertises color:R:3 exactly once; and
\* augmenting the written header again changes nothing.
C9_WrittenHeaderAdvertisesColorOnce ==
    written_header # <<>> =>
        /\ IF ~has_color(header) /\ has_Properties(header)
           THEN /\ color_count(written_header[1]) = 1
                /\ \E k \in 1..(Len(written_header[1].toks) - 1) :
                      /\ written_header[1].toks[k] = "id:I:1"
                      /\ written_header[1].toks[k + 1] = "color:R:3"
           ELSE written_header[1] = header
        /\ rewritten_header # <<>> => rewritten_header = written_header

----------------------------------------------------------------------------
(* Properties of the driver, checked under Spec.  The frame about to be   *)
(* processed is the one that starts at line_idx.                           *)

Min(a, b) == IF a < b THEN a ELSE b

\* the loop is about to process a frame
frame_step == pc = "loop" /\ line_idx < Len(lines)

count_parses   == int_strip(lines[line_idx + 1]).ok
declared       == int_strip(lines[line_idx + 1]).v
header_present == line_idx + 1 < Len(lines)

\* the records of the declared block that the input holds
block_of(ls, idx, n) == SubSeq(ls, idx + 3, Min(idx + 2 + n, Len(ls)))
present_block == block_of(lines, line_idx, declared)

\* fewer atom records remain than the count line declares
block_truncated == line_idx + 2 + declared > Len(lines)

too_few_tokens(l)  == Len(split(l)) < 5
has_five_tokens(l) == Len(split(l)) >= 5
not_numeric(l) ==
    /\ Len(split(l)) >= 5
    /\ ~(split(l)[2].isf /\ split(l)[3].isf /\ split(l)[4].isf /\ split(l)[5].isi)

block_has_bad ==
    \E k \in 1..Len(present_block) : not_numeric(present_block[k])
dropped ==
    Cardinality({k \in 1..Len(present_block) : too_few_tokens(present_block[k])})

\* what the step appends to the output buffer
appended == SubSeq(output_lines', Len(output_lines) + 1, Len(output_lines'))

\* the step is fatal: the loop is left, nothing is rendered or counted
fatal_step ==
    /\ pc' = "broke"
    /\ output_lines' = output_lines
    /\ frame_count' = frame_count

\* after the break no frame is processed
nothing_after_break ==
    pc = "broke" => UNCHANGED <<line_idx, frame_count, output_lines>>

\* the step renders the frame with the records kept, in order, counts it
\* and moves to the line after the declared block
rendered_with(kept) ==
    /\ pc' = "loop"
    /\ frame_count' = frame_count + 1
    /\ line_idx' = line_idx + 2 + declared
    /\ Len(appended) = 2 + Len(kept)
    /\ appended[1].kind = "count"
    /\ appended[2].kind = "header"
    /\ \A k \in 1..Len(kept) :
          /\ appended[2 + k].kind = "atom"
          /\ appended[2 + k].species = make_atom(kept[k]).species
          /\ appended[2 + k].pos = make_atom(kept[k]).pos
          /\ appended[2 + k].id = make_atom(kept[k]).id

\* the records kept are those with at least five tokens
rendered_step == rendered_with(SelectSeq(present_block, has_five_tokens))

well_formed(l) == has_five_tokens(l) /\ ~not_numeric(l)

\* C1: every iteration of the driver loop that stays in the loop moves on to
\* a later line, for any atom count, so that each frame is processed at most
\* once and the loop ends after at most Len(lines) iterations.
C1_EveryIterationAdvances ==
    [][(pc = "loop" /\ pc' = "loop") => line_idx' > line_idx]_vars

has_five_tokens_at(ls, idx, n) == SelectSeq(block_of(ls, idx, n), has_five_tokens)

RECURSIVE rendered_prefix(_, _, _)
\* the text of the k frames that start at line idx, each frame beginning
\* right after the declared block of the one before
rendered_prefix(ls, idx, k) ==
    IF k = 0 THEN <<>>
    ELSE LET n    == int_strip(ls[idx + 1]).v
             h    == ls[idx + 2]
             kept == has_five_tokens_at(ls, idx, n)
             as   == [j \in 1..Len(kept) |-> make_atom(kept[j])]
             info == identify_species_in_frame(as, extract_cell_dimensions(h))
         IN  <<count_out(n), header_out(augment_header(h))>>
                 \o [j \in 1..Len(as) |-> atom_out(as[j], info)]
                 \o rendered_prefix(ls, idx + 2 + n, k - 1)

\* C3: when the loop breaks on an error in frame k, the output buffer holds
\* exactly the complete text of frames 0..k-1 in input order and nothing of
\* frame k or later, the output file is still written, and it holds that
\* text.
C3_OutputIsTheFramesBeforeTheError ==
    pc = "broke" =>
        /\ output_lines = rendered_prefix(lines, 0, frame_count)
        /\ ~written => (ENABLED WriteOutput /\ out_file = <<>>)
        /\ written => out_file = output_lines

\* the file written after a record of the second frame raised
C3_Witness ==
    /\ pc = "broke"
    /\ written
    /\ frame_count = 1
    /\ Len(lines) = 5
    /\ lines[3] = CountLine(1)
    /\ lines[5] = BadNumLine
    /\ Len(out_file) = 2

\* C5: in a frame whose declared block is all there, a record with fewer
\* than five tokens is dropped without ending the frame or the run, the
\* count written for the frame is the declared count less the dropped
\* records, and the next frame starts right after the declared block.
C5_WrittenCountIsDeclaredLessDropped ==
    [][(frame_step /\ count_parses /\ header_present /\ ~block_truncated
            /\ ~block_has_bad /\ dropped >= 1)
          => /\ pc' = "loop"
             /\ line_idx' = line_idx + 2 + declared
             /\ appended[1] = count_out(declared - dropped)]_vars

atom_lines_after(p) ==
    Cardinality({q \in (p + 1)..Len(output_lines) :
        /\ output_lines[q].kind = "atom"
        /\ \A r \in (p + 1)..q : output_lines[r].kind # "count"})

\* C10: in every state of the output buffer each rendered frame is
\* well-formed: the integer on its count line is the number of atom lines
\* that follow it.
C10_CountLineMatchesAtomLines ==
    \A p \in 1..Len(output_lines) :
        output_lines[p].kind = "count"
            => (Len(output_lines) > p /\ output_lines[p].n = atom_lines_after(p))

====
